---- MODULE Spec2Model ----
(***************************************************************************)
(* Model of arduino_helpers' configuration resolution engine:              *)
(*   hardware/__init__.py : traverse, parse_config, merge                  *)
(*   context.py           : nested_dict_iter, resolve, Board.resolve,      *)
(*                          Board.resolve_arduino_vars,                    *)
(*                          Board.resolve_recursive, Board.__init__        *)
(*                                                                         *)
(* Python strings are sequences of one-character strings, so that the      *)
(* regular expressions, str.split, str.replace, str.strip and sorted()     *)
(* are computed character by character, as the code computes them.        *)
(* A Python value is a record [tag, val, kids]:                            *)
(*   tag = "str"  : a string, val its characters                           *)
(*   tag = "dict" : a dict, kids the function from its keys to its values  *)
(*   tag = "none" : None                                                   *)
(*   any other tag: the exception of that name, raised                     *)
(***************************************************************************)
EXTENDS Integers, Sequences, FiniteSets, TLC

VARIABLES
    \* parse_config / nested_dict_iter
    lines,            \* the lines of the configuration file
    result,           \* what parse_config returned or raised
    flat,             \* what nested_dict_iter yielded
    ppc,              \* position: "idle", "read", "parsed", "raised", "flattened"
    \* a Board and a call of its resolve / resolve_recursive
    cpu,              \* self.cpu: None or a str
    combined_config,  \* self.combined_config
    config_str,       \* the argument of the call
    pc,               \* position: "idle", "test", "body", "done", "raised"
    resolved_str, unresolved, most_recent_unresolved_matches, unresolved_matches,
    exc,              \* the exception resolve_recursive let through
    ret,              \* [called, value]: what Board.resolve(config_str) returned or raised
    strict_lookup,    \* the error_on_not_found of a call of resolve(combined_config, config_str)
    \* the dict objects, and the calls of merge on two of them
    heap,             \* the dict objects
    arg_a, arg_b,     \* the arguments of merge(a, b): two dict objects
    before,           \* the nested dict a was before the first call
    calls,            \* the number of calls of merge(a, b) made
    \* an ArduinoContext and the Boards constructed on it
    pre_15,           \* ArduinoContext.pre_15
    runtime_config,   \* ArduinoContext.runtime_config: a dict object, 0 for None
    board_configs_by_family,  \* what get_board_data_by_family() returns
    platform_config_by_family,  \* what get_platform_config_by_family() returns:
                      \* parse_config of each family's platform.txt
    boards,           \* the Boards constructed, in order
    outcomes,         \* how each Board(...) ended, in order: "ok" or the exception
    requests,         \* the (board_name, cpu) of each Board(...), in order
    exposed           \* what was read from a Board and an Uploader made for it

(***************************************************************************)
(* Characters                                                              *)
(***************************************************************************)

\* The characters of the model, in code-point order (what sorted() and
\* the comparison of two str compare).
AsciiOrder ==
    << " ", "#", "'", ".", "/", "0", "1", "2", "3", "4", "5", "6", "7",
       "8", "9", "=", "A", "B", "C", "D", "E", "F", "G", "H", "I", "J",
       "K", "L", "M", "N", "O", "P", "Q", "R", "S", "T", "U", "V", "W",
       "X", "Y", "Z", "_", "a", "b", "c", "d", "e", "f", "g", "h", "i",
       "j", "k", "l", "m", "n", "o", "p", "q", "r", "s", "t", "u", "v",
       "w", "x", "y", "z", "{", "}" >>

Ord(ch) == CHOOSE i \in 1..Len(AsciiOrder) : AsciiOrder[i] = ch

\* [a-zA-Z_]
AlphaChars ==
    { "a", "b", "c", "d", "e", "f", "g", "h", "i", "j", "k", "l", "m",
      "n", "o", "p", "q", "r", "s", "t", "u", "v", "w", "x", "y", "z",
      "A", "B", "C", "D", "E", "F", "G", "H", "I", "J", "K", "L", "M",
      "N", "O", "P", "Q", "R", "S", "T", "U", "V", "W", "X", "Y", "Z",
      "_" }

\* [0-9]
DigitChars == { "0", "1", "2", "3", "4", "5", "6", "7", "8", "9" }

\* [a-zA-Z_0-9]
AlnumChars == AlphaChars \cup DigitChars

(***************************************************************************)
(* Python values                                                           *)
(***************************************************************************)

Str(s) == [tag |-> "str", val |-> s, kids |-> << >>]

Dict(f) == [tag |-> "dict", val |-> << >>, kids |-> f]

None == [tag |-> "none", val |-> << >>, kids |-> << >>]

Raised(name) == [tag |-> name, val |-> << >>, kids |-> << >>]

\* an int, val its decimal digits
PyIntValue(digits) == [tag |-> "int", val |-> digits, kids |-> << >>]

IsRaised(v) == v.tag \notin {"str", "dict", "none", "int"}

\* Then(v), with v computed once: the binding of a local name to a value
Eval(v, Then(_)) == CHOOSE r \in { Then(x) : x \in { v } } : TRUE

(***************************************************************************)
(* str operations                                                          *)
(***************************************************************************)

\* s[i:] for a 1-based i
From(s, i) == SubSeq(s, i, Len(s))

\* s.startswith(p)
StartsWith(s, p) == Len(p) <= Len(s) /\ SubSeq(s, 1, Len(p)) = p

\* s < t on str: lexicographic by code point
RECURSIVE StrLess(_, _)
StrLess(s, t) ==
    IF t = << >> THEN FALSE
    ELSE IF s = << >> THEN TRUE
    ELSE IF s[1] = t[1] THEN StrLess(Tail(s), Tail(t))
    ELSE Ord(s[1]) < Ord(t[1])

\* s.lstrip(), with the space as the only whitespace of the model
RECURSIVE LStrip(_)
LStrip(s) ==
    IF s # << >> /\ s[1] = " " THEN LStrip(Tail(s)) ELSE s

RECURSIVE RStrip(_)
RStrip(s) ==
    IF s # << >> /\ s[Len(s)] = " " THEN RStrip(SubSeq(s, 1, Len(s) - 1)) ELSE s

\* s.strip()
Strip(s) == RStrip(LStrip(s))

\* ch in s
Contains(s, ch) == \E i \in 1..Len(s) : s[i] = ch

\* s.index(ch), 1-based; used only where ch is in s
IndexOf(s, ch) == CHOOSE i \in 1..Len(s) : s[i] = ch /\ \A j \in 1..(i - 1) : s[j] # ch

\* s.split(ch): the list of the pieces between the separators
RECURSIVE Split(_, _)
Split(s, ch) ==
    IF Contains(s, ch)
    THEN << SubSeq(s, 1, IndexOf(s, ch) - 1) >> \o Split(From(s, IndexOf(s, ch) + 1), ch)
    ELSE << s >>

\* insertion of one str into a sorted list of str
RECURSIVE Insert(_, _)
Insert(sorted, s) ==
    IF sorted = << >> THEN << s >>
    ELSE IF StrLess(s, sorted[1]) THEN << s >> \o sorted
    ELSE << sorted[1] >> \o Insert(Tail(sorted), s)

\* sorted(list of str)
RECURSIVE Sorted(_)
Sorted(l) ==
    IF l = << >> THEN << >> ELSE Insert(Sorted(SubSeq(l, 1, Len(l) - 1)), l[Len(l)])

(***************************************************************************)
(* hardware/__init__.py: traverse, parse_config                            *)
(***************************************************************************)

\* the entries of data whose key list is not empty: [d for d in data if d[0]]
RECURSIVE NonEmptyKey(_)
NonEmptyKey(data) ==
    IF data = << >> THEN << >>
    ELSE IF data[1].k # << >> THEN << data[1] >> \o NonEmptyKey(Tail(data))
    ELSE NonEmptyKey(Tail(data))

\* itertools.groupby(data, lambda x: x[0][0]): the runs of consecutive
\* entries with the same first key segment, as [key, items] in order
RECURSIVE GroupBy(_)
GroupBy(data) ==
    IF data = << >> THEN << >>
    ELSE LET rest == GroupBy(Tail(data))
         IN  IF rest # << >> /\ rest[1].key = data[1].k[1]
             THEN << [key |-> rest[1].key, items |-> << data[1] >> \o rest[1].items] >>
                  \o Tail(rest)
             ELSE << [key |-> data[1].k[1], items |-> << data[1] >>] >> \o rest

\* [(item[0][1:], item[1]) for item in group_data]
DropFirstSegment(items) ==
    [i \in 1..Len(items) |-> [k |-> Tail(items[i].k), v |-> items[i].v]]

\* traverse(data): data[0] of an empty list raises IndexError; otherwise a
\* dict filled group by group (a later group of the same key overwrites
\* an earlier one), or the value of the first entry when its key is used up
RECURSIVE traverse(_)
traverse(data) ==
    IF data = << >> THEN Raised("IndexError")
    ELSE IF data[1].k # << >>
    THEN LET groups == GroupBy(NonEmptyKey(data))
             last(key) == CHOOSE i \in 1..Len(groups) :
                             /\ groups[i].key = key
                             /\ \A j \in (i + 1)..Len(groups) : groups[j].key # key
         IN  Dict([key \in {groups[i].key : i \in 1..Len(groups)} |->
                      traverse(DropFirstSegment(groups[last(key)].items))])
    ELSE Str(data[1].v)

\* the lines parse_config keeps, stripped:
\* [line.strip() for line in lines if line.strip() and not line.startswith('#')]
RECURSIVE KeptLines(_)
KeptLines(ls) ==
    IF ls = << >> THEN << >>
    ELSE IF Strip(ls[1]) # << >> /\ ~StartsWith(ls[1], << "#" >>)
    THEN << Strip(ls[1]) >> \o KeptLines(Tail(ls))
    ELSE KeptLines(Tail(ls))

\* the loop of parse_config: [key, value] of each line that holds '='
RECURSIVE CleanedData(_)
CleanedData(config_data) ==
    IF config_data = << >> THEN << >>
    ELSE LET d == config_data[1]
         IN  IF Contains(d, "=")
             THEN << [k |-> Split(SubSeq(d, 1, IndexOf(d, "=") - 1), "."),
                      v |-> From(d, IndexOf(d, "=") + 1)] >>
                  \o CleanedData(Tail(config_data))
             ELSE CleanedData(Tail(config_data))

\* parse_config, on the lines of the file
parse_config(ls) == traverse(CleanedData(Sorted(KeptLines(ls))))

(***************************************************************************)
(* The dict objects of the program. merge mutates its first argument and   *)
(* stores references to the sub-dicts of its second one, so the dicts that *)
(* merge and Board.__init__ work on live in a heap: a sequence of dict     *)
(* objects, each a function from keys to cells, a cell being a str or a    *)
(* reference to the dict object with that index.                           *)
(***************************************************************************)

StrCell(s) == [tag |-> "str", val |-> s, id |-> 0]

RefCell(i) == [tag |-> "ref", val |-> << >>, id |-> i]

\* the value of the dict object id: the nested dict it is the root of
RECURSIVE HeapTree(_, _)
HeapTree(h, id) ==
    Dict([k \in DOMAIN h[id] |->
             IF h[id][k].tag = "ref" THEN HeapTree(h, h[id][k].id) ELSE Str(h[id][k].val)])

\* h with obj[key] = cell for the dict object id
SetItem(h, id, key, cell) ==
    [h EXCEPT ![id] = [k \in DOMAIN @ \cup {key} |-> IF k = key THEN cell ELSE @[k]]]

\* a new dict object for every dict of the nested dict t (a dict literal, the
\* result of parse_config, a deepcopy): [h, id], the heap and the new root
RECURSIVE AllocDict(_, _)
RECURSIVE AllocItems(_, _, _, _)
AllocItems(h, id, t, keys) ==
    IF keys = {} THEN [h |-> h, id |-> id]
    ELSE Eval(CHOOSE key \in keys : TRUE, LAMBDA k :
         IF t.kids[k].tag = "dict"
         THEN Eval(AllocDict(h, t.kids[k]), LAMBDA sub :
              Eval(SetItem(sub.h, id, k, RefCell(sub.id)), LAMBDA h1 :
              AllocItems(h1, id, t, keys \ {k})))
         ELSE Eval(SetItem(h, id, k, StrCell(t.kids[k].val)), LAMBDA h1 :
              AllocItems(h1, id, t, keys \ {k})))

AllocDict(h, t) ==
    Eval(h, LAMBDA h0 : Eval(t, LAMBDA t0 :
    AllocItems(Append(h0, << >>), Len(h0) + 1, t0, DOMAIN t0.kids)))

(***************************************************************************)
(* hardware/__init__.py: merge                                             *)
(***************************************************************************)

\* a conflict that exchanges a[key] and b[key]
OnConflict_Exchange(h, a, b, key) ==
    SetItem(SetItem(h, a, key, h[b][key]), b, key, h[a][key])

\* a conflict that overwrites a[key] with b[key]
OnConflict_Overwrite(h, a, b, key) == SetItem(h, a, key, h[b][key])

\* the else branch of a conflict: a warning is logged, a[key] stays
OnConflict(h, a, b, key) == h

\* merge(a, b) on the dict objects a and b: the heap afterwards (a is
\* returned). The keys of b are visited one by one; in which order makes no
\* difference, each key being treated on its own.
RECURSIVE merge(_, _, _)
RECURSIVE MergeKeys(_, _, _, _)
MergeKeys(h, a, b, keys) ==
    IF keys = {} THEN h
    ELSE Eval(CHOOSE k \in keys : TRUE, LAMBDA key :
         Eval(IF key \in DOMAIN h[a]
              THEN IF h[a][key].tag = "ref" /\ h[b][key].tag = "ref"
                   THEN merge(h, h[a][key].id, h[b][key].id)
                   ELSE IF h[a][key] = h[b][key]
                   THEN h
                   ELSE OnConflict(h, a, b, key)
              ELSE SetItem(h, a, key, h[b][key]),
              LAMBDA h1 : MergeKeys(h1, a, b, keys \ {key})))

merge(h, a, b) ==
    Eval(h, LAMBDA h0 : Eval(a, LAMBDA a0 : Eval(b, LAMBDA b0 :
    MergeKeys(h0, a0, b0, DOMAIN h0[b0]))))

(***************************************************************************)
(* context.py: nested_dict_iter                                            *)
(***************************************************************************)

\* the (keys, value) pairs nested_dict_iter yields, as a set
RECURSIVE nested_dict_iter(_, _)
nested_dict_iter(nested_dict, keys) ==
    UNION { IF nested_dict.kids[k].tag = "dict"
            THEN nested_dict_iter(nested_dict.kids[k], Append(keys, k))
            ELSE { << Append(keys, k), nested_dict.kids[k].val >> }
          : k \in DOMAIN nested_dict.kids }

(***************************************************************************)
(* context.py: resolve, Board.resolve, Board.resolve_arduino_vars          *)
(***************************************************************************)

\* the first position at or after i whose character is not in class
RECURSIVE SkipClass(_, _, _)
SkipClass(s, i, class) ==
    IF i <= Len(s) /\ s[i] \in class THEN SkipClass(s, i + 1, class) ELSE i

\* first rest* matched at position i: the position after it, or 0
IdentEnd(s, i, first, rest) ==
    IF i <= Len(s) /\ s[i] \in first THEN SkipClass(s, i + 1, rest) ELSE 0

\* (\. first rest*)* matched at position i: the position after it
RECURSIVE SegmentsEnd(_, _, _, _)
SegmentsEnd(s, i, first, rest) ==
    IF i <= Len(s) /\ s[i] = "." /\ IdentEnd(s, i + 1, first, rest) # 0
    THEN SegmentsEnd(s, IdentEnd(s, i + 1, first, rest), first, rest)
    ELSE i

\* { first rest* (\. first rest*)* } matched at position i: the position
\* after the closing brace, or 0 when there is no match at i
BraceMatchEnd(s, i, first, rest) ==
    IF i <= Len(s) /\ s[i] = "{" /\ IdentEnd(s, i + 1, first, rest) # 0
    THEN LET e == SegmentsEnd(s, IdentEnd(s, i + 1, first, rest), first, rest)
         IN  IF e <= Len(s) /\ s[e] = "}" THEN e + 1 ELSE 0
    ELSE 0

\* re.match(r'{[a-zA-Z_][a-zA-Z_0-9]*(\.[a-zA-Z_][a-zA-Z_0-9]*)*}', var):
\* a match of a prefix of var
VarReMatch(var) == BraceMatchEnd(var, 1, AlphaChars, AlnumChars) # 0

\* the walk of resolve over the keys, default_value being None
RECURSIVE Walk(_, _, _)
Walk(value, keys, error_on_not_found) ==
    IF keys = << >> THEN value
    ELSE IF error_on_not_found
    THEN \* value = value[k]
         IF value.tag = "dict"
         THEN IF keys[1] \in DOMAIN value.kids
              THEN Walk(value.kids[keys[1]], Tail(keys), error_on_not_found)
              ELSE Raised("KeyError")
         ELSE Raised("TypeError")
    ELSE IF value.tag = "none"
    THEN Walk(value, Tail(keys), error_on_not_found)
    ELSE \* value = value.get(k, default_value)
         IF value.tag = "dict"
         THEN IF keys[1] \in DOMAIN value.kids
              THEN Walk(value.kids[keys[1]], Tail(keys), error_on_not_found)
              ELSE Walk(None, Tail(keys), error_on_not_found)
         ELSE Raised("AttributeError")

\* resolve(config_dict, var, None, error_on_not_found)
resolve(config_dict, var, error_on_not_found) ==
    IF ~VarReMatch(var) THEN Raised("ValueError")
    ELSE Walk(config_dict, Split(SubSeq(var, 2, Len(var) - 1), "."), error_on_not_found)

\* str(cpu) as an f-string formats it
FormatCpu(c) == IF c.tag = "none" THEN << "N", "o", "n", "e" >> ELSE c.val

MenuCpuPrefix == << "m", "e", "n", "u", ".", "c", "p", "u", "." >>

\* Board.resolve(var), with no extra_dicts: the CPU-specific value
\* first, then the value that is not CPU specific
BoardResolve(c, config, var) ==
    LET key   == SubSeq(var, 2, Len(var) - 1)
        value == resolve(config, << "{" >> \o MenuCpuPrefix \o FormatCpu(c) \o << "." >>
                                 \o key \o << "}" >>, FALSE)
    IN  IF value.tag # "none" THEN value
        ELSE resolve(config, << "{" >> \o key \o << "}" >>, FALSE)

\* re.findall(r'{.*?}', pattern): from each '{' to the first '}' after it
RECURSIVE FindAllBraces(_)
FindAllBraces(s) ==
    IF s = << >> THEN << >>
    ELSE IF s[1] = "{" /\ Contains(s, "}")
    THEN << SubSeq(s, 1, IndexOf(s, "}")) >> \o FindAllBraces(From(s, IndexOf(s, "}") + 1))
    ELSE FindAllBraces(Tail(s))

\* the keys of var_map in insertion order: each var once, where it is first found
RECURSIVE VarMapKeys(_, _)
VarMapKeys(found, seen) ==
    IF found = << >> THEN << >>
    ELSE IF found[1] \in seen THEN VarMapKeys(Tail(found), seen)
    ELSE << found[1] >> \o VarMapKeys(Tail(found), seen \cup {found[1]})

\* s.replace(old, new) for a non-empty old
RECURSIVE Replace(_, _, _)
Replace(s, old, new) ==
    IF Len(s) < Len(old) THEN s
    ELSE IF StartsWith(s, old) THEN new \o Replace(From(s, Len(old) + 1), old, new)
    ELSE << s[1] >> \o Replace(Tail(s), old, new)

\* var_map[var]: self.resolve(var), with None for a ValueError
VarMapValue(c, config, var) ==
    LET value == BoardResolve(c, config, var)
    IN  IF value.tag = "ValueError" THEN None ELSE value

\* the second loop of resolve_arduino_vars over var_map.items()
RECURSIVE Substitute(_, _, _, _, _)
Substitute(c, config, keys, cmd, unres) ==
    IF keys = << >> THEN [tag |-> "ok", cmd |-> cmd, unresolved |-> unres]
    ELSE LET value == VarMapValue(c, config, keys[1])
         IN  IF value.tag # "str"
             THEN Substitute(c, config, Tail(keys), cmd, Append(unres, keys[1]))
             ELSE Substitute(c, config, Tail(keys),
                             Replace(cmd, keys[1], value.val), unres)

\* Board.resolve_arduino_vars(pattern): (cmd, unresolved), or the exception
\* other than ValueError that the first loop lets through
resolve_arduino_vars(c, config, pattern) ==
    LET keys == VarMapKeys(FindAllBraces(pattern), {})
        bad  == { i \in 1..Len(keys) : IsRaised(VarMapValue(c, config, keys[i])) }
    IN  IF bad # {}
        THEN [tag |-> VarMapValue(c, config,
                                   keys[CHOOSE i \in bad : \A j \in bad : i <= j]).tag,
              cmd |-> pattern, unresolved |-> << >>]
        ELSE Substitute(c, config, keys, pattern, << >>)

(***************************************************************************)
(* context.py: Board.resolve_recursive                                     *)
(***************************************************************************)

\* group 2 of cre_var: the last '.segment' of the match, '' when it has none
LastDotSegment(g) ==
    IF Contains(g, ".")
    THEN LET parts == Split(SubSeq(g, 2, Len(g) - 1), ".")
         IN  << "." >> \o parts[Len(parts)]
    ELSE << >>

\* cre_var.findall(s) for cre_var = ({[a-zA-Z_]+(\.[a-zA-Z_]+)*}):
\* the (group 1, group 2) of each match, left to right, not overlapping
RECURSIVE CreVarFindAll(_)
CreVarFindAll(s) ==
    IF s = << >> THEN << >>
    ELSE LET e == BraceMatchEnd(s, 1, AlphaChars, AlphaChars)
         IN  IF e # 0
             THEN << << SubSeq(s, 1, e - 1), LastDotSegment(SubSeq(s, 1, e - 1)) >> >>
                  \o CreVarFindAll(From(s, e))
             ELSE CreVarFindAll(Tail(s))

\* a loop that runs its body once
LoopCondition_Once(most_recent, matches) ==
    most_recent.none

\* the test of the while loop; most_recent is [none, v], none for None
\* (resolved_str is never None)
LoopCondition(most_recent, matches) ==
    most_recent.none \/ most_recent.v # matches

\* a return without the removal of the quotes
StripQuotes_Kept(s) == s

\* resolved_str.replace("\'", '')
StripQuotes(s) == Replace(s, << "'" >>, << >>)

\* the while loop of resolve_recursive, from its test on: [tag, resolved_str,
\* unresolved], tag "ok" or the exception that went through
RECURSIVE RR_Loop(_, _, _, _, _, _)
RR_Loop(c, config, resolved, unres, most_recent, matches) ==
    IF LoopCondition(most_recent, matches)
    THEN LET r == resolve_arduino_vars(c, config, resolved)
         IN  IF r.tag # "ok"
             THEN [tag |-> r.tag, resolved_str |-> resolved, unresolved |-> unres]
             ELSE RR_Loop(c, config, r.cmd, r.unresolved,
                          [none |-> FALSE, v |-> matches], CreVarFindAll(r.cmd))
    ELSE [tag |-> "ok", resolved_str |-> StripQuotes(resolved), unresolved |-> unres]

\* resolve_recursive(config_str) as one call
resolve_recursive(c, config, s) ==
    LET r == resolve_arduino_vars(c, config, s)
    IN  IF r.tag # "ok"
        THEN [tag |-> r.tag, resolved_str |-> s, unresolved |-> << >>]
        ELSE RR_Loop(c, config, r.cmd, r.unresolved,
                     [none |-> TRUE, v |-> << >>], CreVarFindAll(r.cmd))

(***************************************************************************)
(* context.py: ArduinoContext.__init__                                     *)
(***************************************************************************)

\* ArduinoContext.arduino_home_path
arduino_home_path == << "/", "o", "p", "t" >>

\* str(n) of a number below ten
DigitStr(n) == << << "0", "1", "2", "3", "4", "5", "6", "7", "8", "9" >>[n + 1] >>

\* ArduinoContext.__init__: revisions is None without a revisions.txt, else
\* the (major, minor, micro) of its ARDUINO line. [pre_15, runtime_config],
\* runtime_config None or the nested dict
ArduinoContext(revisions) ==
    IF revisions = << >> THEN [pre_15 |-> TRUE, runtime_config |-> None]
    ELSE LET major == revisions[1]
             minor == revisions[2]
             micro == revisions[3]
             arduino_version == DigitStr(major) \o << "_" >> \o DigitStr(minor)
                                \o << "_" >> \o DigitStr(micro)
         IN  [pre_15 |-> major < 1 \/ (major = 1 /\ minor < 5),
              runtime_config |->
                  Dict(<< "r", "u", "n", "t", "i", "m", "e" >> :> Dict(<< "i", "d", "e" >> :> Dict(<< "p", "a", "t", "h" >> :> Str(arduino_home_path)
                                                   @@ << "v", "e", "r", "s", "i", "o", "n" >> :> Str(arduino_version))))]

(***************************************************************************)
(* context.py: resolve_legacy_board, Board.__init__                        *)
(***************************************************************************)

LowerCase ==
    << "a", "b", "c", "d", "e", "f", "g", "h", "i", "j", "k", "l", "m",
       "n", "o", "p", "q", "r", "s", "t", "u", "v", "w", "x", "y", "z" >>

UpperCase ==
    << "A", "B", "C", "D", "E", "F", "G", "H", "I", "J", "K", "L", "M",
       "N", "O", "P", "Q", "R", "S", "T", "U", "V", "W", "X", "Y", "Z" >>

\* str.upper() and str.lower()
Upper(s) ==
    [i \in 1..Len(s) |->
        IF \E k \in 1..Len(LowerCase) : LowerCase[k] = s[i]
        THEN UpperCase[CHOOSE k \in 1..Len(LowerCase) : LowerCase[k] = s[i]]
        ELSE s[i]]

Lower(s) ==
    [i \in 1..Len(s) |->
        IF \E k \in 1..Len(UpperCase) : UpperCase[k] = s[i]
        THEN LowerCase[CHOOSE k \in 1..Len(UpperCase) : UpperCase[k] = s[i]]
        ELSE s[i]]

\* path.joinpath(*parts)
RECURSIVE JoinPath(_, _)
JoinPath(p, parts) ==
    IF parts = << >> THEN p
    ELSE JoinPath(IF p = << >> \/ p[Len(p)] = "/" THEN p \o parts[1]
                  ELSE p \o << "/" >> \o parts[1],
                  Tail(parts))

\* the lines of LEGACY_BOARD_INFO split at ':', as << board, cpu, name_1_0 >>:
\* the header and the rows of the boards "pro" and "uno"
LEGACY_BOARD_INFO ==
    << << << "b", "o", "a", "r", "d" >>, << "c", "p", "u" >>, << "n", "a", "m", "e", "_", "1", "_", "0" >> >>,
       << << "p", "r", "o" >>, << "a", "t", "m", "e", "g", "a", "1", "6", "8" >>, << "p", "r", "o" >> >>,
       << << "p", "r", "o" >>, << "a", "t", "m", "e", "g", "a", "3", "2", "8" >>, << "p", "r", "o", "3", "2", "8" >> >>,
       << << "p", "r", "o" >>, << "a", "t", "m", "e", "g", "a", "1", "6", "8" >>, << "p", "r", "o", "5", "v" >> >>,
       << << "u", "n", "o" >>, << >>, << "u", "n", "o" >> >> >>

\* resolve_legacy_board(board_name): (board, cpu) of the first line whose
\* name_1_0 is board_name, (None, None) without one
resolve_legacy_board(board_name) ==
    LET hits == { i \in 1..Len(LEGACY_BOARD_INFO) : LEGACY_BOARD_INFO[i][3] = board_name }
        line == LEGACY_BOARD_INFO[CHOOSE i \in hits : \A j \in hits : i <= j]
    IN  IF hits = {} THEN [board |-> None, cpu |-> None]
        ELSE [board |-> Str(line[1]), cpu |-> Str(line[2])]

\* self.build_config
BuildConfig(family) ==
    Dict(<< "b", "u", "i", "l", "d" >> :> Dict(<< "a", "r", "c", "h" >> :> Str(Upper(family))
                       @@ << "s", "y", "s", "t", "e", "m" >> :> Dict(<< "p", "a", "t", "h" >> :> Str(JoinPath(arduino_home_path,
                                             << << "h", "a", "r", "d", "w", "a", "r", "e" >>, << "a", "r", "d", "u", "i", "n", "o" >>, Lower(family), << "s", "y", "s", "t", "e", "m" >> >>)))))

\* the platform definition merged before the runtime info
MergeLayers_PlatformFirst(h, combined, runtime, platform, build) ==
    Eval(IF platform # 0 THEN merge(h, combined, platform) ELSE h, LAMBDA h1 :
    Eval(IF runtime # 0 THEN merge(h1, combined, runtime) ELSE h1, LAMBDA h2 :
    merge(h2, combined, build)))

\* the merges of Board.__init__ into combined_config: the runtime info if
\* there is one, the platform definition if there is one, the build layer
MergeLayers(h, combined, runtime, platform, build) ==
    Eval(IF runtime # 0 THEN merge(h, combined, runtime) ELSE h, LAMBDA h1 :
    Eval(IF platform # 0 THEN merge(h1, combined, platform) ELSE h1, LAMBDA h2 :
    merge(h2, combined, build)))

\* f'{{runtime.ide.path}}/hardware/tools/{self.family.lower()}/bin'
CompilerTemplate(family) ==
    << "{", "r", "u", "n", "t", "i", "m", "e", ".", "i", "d", "e", ".", "p", "a", "t", "h", "}", "/", "h", "a", "r", "d", "w", "a", "r", "e", "/", "t", "o", "o", "l", "s", "/" >> \o Lower(family) \o << "/", "b", "i", "n" >>

\* self.combined_config.setdefault('compiler', {})['path'] = compiler_path:
\* [tag, h], tag "ok" or the exception raised
SetCompilerPath(h, combined, compiler_path) ==
    IF << "c", "o", "m", "p", "i", "l", "e", "r" >> \notin DOMAIN h[combined]
    THEN [tag |-> "ok",
          h   |-> SetItem(SetItem(Append(h, << >>), Len(h) + 1, << "p", "a", "t", "h" >>, StrCell(compiler_path)),
                          combined, << "c", "o", "m", "p", "i", "l", "e", "r" >>, RefCell(Len(h) + 1))]
    ELSE IF h[combined][<< "c", "o", "m", "p", "i", "l", "e", "r" >>].tag = "ref"
    THEN [tag |-> "ok", h |-> SetItem(h, h[combined][<< "c", "o", "m", "p", "i", "l", "e", "r" >>].id, << "p", "a", "t", "h" >>, StrCell(compiler_path))]
    ELSE [tag |-> "TypeError", h |-> h]

\* sub in s, for two str
IsSubstring(sub, s) == \E i \in 1..(Len(s) + 1) : StartsWith(From(s, i), sub)

\* 'menu' in self.combined_config and 'cpu' in self.combined_config['menu']
HasCpuMenu(h, combined) ==
    /\ << "m", "e", "n", "u" >> \in DOMAIN h[combined]
    /\ IF h[combined][<< "m", "e", "n", "u" >>].tag = "ref"
       THEN << "c", "p", "u" >> \in DOMAIN h[h[combined][<< "m", "e", "n", "u" >>].id]
       ELSE IsSubstring(<< "c", "p", "u" >>, h[combined][<< "m", "e", "n", "u" >>].val)

\* the family of the board definitions that holds board_name, None without one
\* (the last such family of the mapping, when there are several)
FamilyOf(board_name) ==
    LET with == { f \in DOMAIN board_configs_by_family :
                     board_name \in DOMAIN board_configs_by_family[f] }
    IN  IF with = {} THEN { None } ELSE { Str(f) : f \in with }

\* a construction that raises
Fails(name, h) == [outcome |-> name, h |-> h, board |-> << >>]

\* Board.__init__ from the deepcopy on, for the board name of family;
\* self_cpu is self.cpu, which the local cpu equals from here on
Assemble(h, family, name, self_cpu, isdir) ==
    Eval(board_configs_by_family[family][name], LAMBDA config :
    Eval(IF pre_15 THEN [h |-> h, id |-> 0]
         ELSE AllocDict(h, platform_config_by_family[family]), LAMBDA platform :
    Eval(AllocDict(platform.h, config), LAMBDA combined_ :
    Eval(AllocDict(combined_.h, BuildConfig(family)), LAMBDA build :
    Eval(<< config >>
         \o (IF runtime_config # 0 THEN << HeapTree(h, runtime_config) >> ELSE << >>)
         \o (IF platform.id # 0 THEN << HeapTree(platform.h, platform.id) >> ELSE << >>)
         \o << BuildConfig(family) >>, LAMBDA layers :
    Eval(MergeLayers(build.h, combined_.id, runtime_config, platform.id, build.id), LAMBDA h1 :
    Eval(HeapTree(h1, combined_.id), LAMBDA merged :
    Eval(resolve_recursive(self_cpu, merged, CompilerTemplate(family)), LAMBDA rr :
    Eval(JoinPath(rr.resolved_str, << << >> >>), LAMBDA compiler_path :
    Eval(IF rr.tag = "ok" /\ isdir THEN SetCompilerPath(h1, combined_.id, compiler_path)
         ELSE [tag |-> "ok", h |-> h1], LAMBDA set :
    IF rr.tag # "ok" THEN Fails(rr.tag, h1)
    ELSE IF set.tag # "ok" THEN Fails(set.tag, set.h)
    ELSE IF ~pre_15 /\ self_cpu.tag = "none" /\ HasCpuMenu(set.h, combined_.id)
    THEN Fails("ValueError", set.h)
    ELSE [outcome |-> "ok",
          h       |-> set.h,
          board   |-> [family |-> family, name |-> name, cpu |-> self_cpu,
                       config |-> config, platform |-> platform.id,
                       combined_config |-> combined_.id, build_config |-> build.id,
                       layers |-> layers]]))))))))))

\* Board(arduino_context, board_name, cpu) with the family found for the
\* name; isdir is whether the compiler directory exists:
\* [outcome, h, board], the outcome "ok" or the exception raised
BoardInit(h, board_name, cpu_arg, found, isdir) ==
    IF pre_15 /\ cpu_arg.tag # "none" THEN Fails("ValueError", h)
    ELSE LET legacy == cpu_arg.tag = "none" /\ found.tag = "none"
             entry  == resolve_legacy_board(board_name)
             name   == IF legacy THEN entry.board ELSE Str(board_name)
             cpu1   == IF legacy THEN entry.cpu ELSE cpu_arg
             family == IF legacy THEN Str(<< "a", "v", "r" >>) ELSE found
         IN  IF family.tag = "none" THEN Fails("AssertionError", h)
             ELSE IF \/ family.val \notin DOMAIN board_configs_by_family
                     \/ name.tag = "none"
                     \/ name.val \notin DOMAIN board_configs_by_family[family.val]
             THEN Fails("KeyError", h)
             ELSE IF ~pre_15 /\ \E f \in DOMAIN platform_config_by_family :
                                    IsRaised(platform_config_by_family[f])
             THEN Fails("IndexError", h)
             ELSE IF ~pre_15 /\ family.val \notin DOMAIN platform_config_by_family
             THEN Fails("KeyError", h)
             ELSE Assemble(h, family.val, name.val, cpu1, isdir)

(***************************************************************************)
(* context.py: Board.mcu, Uploader                                         *)
(***************************************************************************)

\* value[key], for a str key
GetItem(value, key) ==
    IF IsRaised(value) THEN value
    ELSE IF value.tag # "dict" THEN Raised("TypeError")
    ELSE IF key \in DOMAIN value.kids THEN value.kids[key]
    ELSE Raised("KeyError")

\* the digits without their leading zeros
RECURSIVE DropZeros(_)
DropZeros(digits) ==
    IF Len(digits) > 1 /\ digits[1] = "0" THEN DropZeros(Tail(digits)) ELSE digits

\* int(value): of a str of digits, single underscores between them and
\* blanks around them
PyInt(value) ==
    IF IsRaised(value) THEN value
    ELSE IF value.tag # "str" THEN Raised("TypeError")
    ELSE LET s == Strip(value.val)
         IN  IF /\ s # << >>
                /\ \A i \in 1..Len(s) : s[i] \in DigitChars \cup {"_"}
                /\ s[1] # "_" /\ s[Len(s)] # "_"
                /\ \A i \in 1..(Len(s) - 1) : ~(s[i] = "_" /\ s[i + 1] = "_")
             THEN PyIntValue(DropZeros(SelectSeq(s, LAMBDA ch : ch # "_")))
             ELSE Raised("ValueError")

\* Board.mcu
mcu(board) == GetItem(GetItem(board.config, << "b", "u", "i", "l", "d" >>), << "m", "c", "u" >>)

\* board.config['upload']
UploadConfig(board) == GetItem(board.config, << "u", "p", "l", "o", "a", "d" >>)

\* get_tools_dir_root(arduino_home_path)
get_tools_dir_root ==
    JoinPath(arduino_home_path, << << "h", "a", "r", "d", "w", "a", "r", "e" >>, << "t", "o", "o", "l", "s" >> >>)

\* get_tools_dir_by_family(arduino_home_path): arm is whether the directory
\* g++_arm_none_eabi exists
get_tools_dir_by_family(arm) ==
    (<< "a", "v", "r" >> :> JoinPath(get_tools_dir_root, << << "a", "v", "r" >> >>))
    @@ (IF arm
        THEN << "s", "a", "m" >> :> JoinPath(get_tools_dir_root,
                 << << "g", "+", "+", "_", "a", "r", "m", "_", "n", "o", "n", "e", "_", "e", "a", "b", "i" >> >>)
        ELSE << >>)

\* Uploader(board): [tag, board_context, upload_tool, tools_dir, bin_dir],
\* tag "ok" or the exception raised
Uploader(board, arm) ==
    LET upload == UploadConfig(board)
        tool   == IF << "t", "o", "o", "l" >> \in DOMAIN upload.kids
                  THEN upload.kids[<< "t", "o", "o", "l" >>] ELSE None
        fails(name) == [tag |-> name, board_context |-> board, upload_tool |-> None,
                        tools_dir |-> << >>, bin_dir |-> << >>]
    IN  IF IsRaised(upload) THEN fails(upload.tag)
        ELSE IF upload.tag # "dict" THEN fails("AttributeError")
        ELSE IF board.family \notin DOMAIN get_tools_dir_by_family(arm) THEN fails("KeyError")
        ELSE [tag |-> "ok", board_context |-> board,
              upload_tool |-> IF tool.tag = "none"
                              THEN Str(<< "a", "v", "r", "d", "u", "d", "e" >>) ELSE tool,
              tools_dir |-> get_tools_dir_by_family(arm)[board.family],
              bin_dir |-> JoinPath(get_tools_dir_by_family(arm)[board.family],
                                   << << "b", "i", "n" >> >>)]

\* Uploader.protocol
protocol(uploader) ==
    GetItem(UploadConfig(uploader.board_context), << "p", "r", "o", "t", "o", "c", "o", "l" >>)

\* Uploader.speed
speed(uploader) ==
    PyInt(GetItem(UploadConfig(uploader.board_context), << "s", "p", "e", "e", "d" >>))

\* Uploader.conf_path: in_etc and in_root are whether avrdude.conf is a file
\* of the family's tools directory and of the root tools directory
conf_path(uploader, in_etc, in_root) ==
    IF uploader.upload_tool # Str(<< "a", "v", "r", "d", "u", "d", "e" >>) THEN None
    ELSE IF in_etc
    THEN Str(JoinPath(uploader.tools_dir, << << "e", "t", "c" >>, << "a", "v", "r", "d", "u", "d", "e", ".", "c", "o", "n", "f" >> >>))
    ELSE IF in_root
    THEN Str(JoinPath(get_tools_dir_root, << << "a", "v", "r", "d", "u", "d", "e", ".", "c", "o", "n", "f" >> >>))
    ELSE Raised("IOError")

\* Uploader.flags: the (flag, value) pairs in order, or the first exception
\* that the evaluation of the values raises
flags(uploader, in_etc, in_root) ==
    LET pairs == << << << "-", "C" >>, conf_path(uploader, in_etc, in_root) >>,
                    << << "-", "c" >>, protocol(uploader) >>,
                    << << "-", "p" >>, mcu(uploader.board_context) >>,
                    << << "-", "b" >>, speed(uploader) >> >>
        bad   == { i \in 1..Len(pairs) : IsRaised(pairs[i][2]) }
    IN  IF bad = {} THEN [tag |-> "ok", items |-> pairs]
        ELSE [tag |-> pairs[CHOOSE i \in bad : \A j \in bad : i <= j][2].tag, items |-> << >>]

(***************************************************************************)
(* Specification of the parser: a file is read, parsed, and the result     *)
(* is flattened again.                                                     *)
(***************************************************************************)

MaxLines == 3

\* the lines a configuration file of the model is made of
FileLines ==
    { << "a", "=", "1" >>,
      << "a", ".", "b", "=", "1" >>,
      << "a", ".", "c", "=" >>,
      << "b", ".", "a", ".", "c", "=", "x", "=", "y" >>,
      << "a", "b", "=", "2" >>,
      << " ", "b", ".", "d", "=", "z", " " >>,
      << "f", "o", "o" >>,
      << "#", "c", "=", "1" >>,
      << " " >> }

Files == UNION { [1..n -> FileLines] : n \in 0..MaxLines }

vars ==
    << lines, result, flat, ppc,
       cpu, combined_config, config_str, pc, resolved_str, unresolved,
       most_recent_unresolved_matches, unresolved_matches, exc, ret, strict_lookup,
       heap, arg_a, arg_b, before, calls,
       pre_15, runtime_config, board_configs_by_family, platform_config_by_family, boards, outcomes,
       requests, exposed >>

parseVars == << lines, result, flat, ppc >>

resolveVars ==
    << cpu, combined_config, config_str, pc, resolved_str, unresolved,
       most_recent_unresolved_matches, unresolved_matches, exc, ret, strict_lookup >>

mergeVars == << heap, arg_a, arg_b, before, calls >>

ParseIdle ==
    /\ lines = << >>
    /\ result = None
    /\ flat = {}
    /\ ppc = "idle"

ResolveIdle ==
    /\ cpu = None
    /\ combined_config = Dict(<< >>)
    /\ config_str = << >>
    /\ pc = "off"
    /\ resolved_str = << >>
    /\ unresolved = << >>
    /\ most_recent_unresolved_matches = [none |-> TRUE, v |-> << >>]
    /\ unresolved_matches = << >>
    /\ exc = "none"
    /\ ret = [called |-> FALSE, value |-> None]
    /\ strict_lookup = FALSE

MergeIdle ==
    /\ heap = << >>
    /\ arg_a = 0
    /\ arg_b = 0
    /\ before = Dict(<< >>)
    /\ calls = 0

boardVars ==
    << pre_15, runtime_config, board_configs_by_family, platform_config_by_family, boards, outcomes,
       requests, exposed >>

BoardIdle ==
    /\ pre_15 = TRUE
    /\ runtime_config = 0
    /\ board_configs_by_family = << >>
    /\ platform_config_by_family = << >>
    /\ boards = << >>
    /\ outcomes = << >>
    /\ requests = << >>
    /\ exposed = [called |-> FALSE]

ParseInit ==
    /\ lines \in Files
    /\ result = None
    /\ flat = {}
    /\ ppc = "read"
    /\ ResolveIdle
    /\ MergeIdle
    /\ BoardIdle

\* config = parse_config(path)
Parse ==
    /\ ppc = "read"
    /\ result' = parse_config(lines)
    /\ ppc' = IF IsRaised(parse_config(lines)) THEN "raised" ELSE "parsed"
    /\ UNCHANGED << lines, flat >>
    /\ UNCHANGED << resolveVars, mergeVars, boardVars >>

\* list(nested_dict_iter(config))
Flatten ==
    /\ ppc = "parsed"
    /\ flat' = nested_dict_iter(result, << >>)
    /\ ppc' = "flattened"
    /\ UNCHANGED << lines, result >>
    /\ UNCHANGED << resolveVars, mergeVars, boardVars >>

ParseNext == Parse \/ Flatten

SpecParse == ParseInit /\ [][ParseNext]_vars

(***************************************************************************)
(* Specification of the resolver: a Board with a CPU identity and a        *)
(* combined configuration, on which resolve and resolve_recursive are      *)
(* called with one argument.                                               *)
(***************************************************************************)

\* the number of variables of a configuration that may refer to each other
NVars == 3

VarLetters == << "a", "b", "c", "d", "e" >>

VarDigits == << "1", "2", "3", "4", "5" >>

\* the name of variable i: a letter, or a letter and a digit
VarName(i, digits) ==
    IF digits THEN << VarLetters[i], VarDigits[i] >> ELSE << VarLetters[i] >>

Placeholder(name) == << "{" >> \o name \o << "}" >>

\* what a configuration gives a variable: nothing, a text, a sub-mapping
\* (name.e=x), or a reference to variable `to`
VarChoices ==
    { [kind |-> k, to |-> 1] : k \in {"absent", "text", "map"} }
    \cup { [kind |-> "ref", to |-> j] : j \in 1..NVars }

VarLine(i, choice, digits) ==
    CASE choice.kind = "absent" -> << >>
      [] choice.kind = "text"   -> << VarName(i, digits) \o << "=", "x" >> >>
      [] choice.kind = "map"    -> << VarName(i, digits) \o << ".", "e", "=", "x" >> >>
      [] choice.kind = "ref"    -> << VarName(i, digits) \o << "=" >>
                                      \o Placeholder(VarName(choice.to, digits)) >>

RECURSIVE VarLines(_, _, _)
VarLines(n, assign, digits) ==
    IF n = 0 THEN << >>
    ELSE VarLines(n - 1, assign, digits) \o VarLine(n, assign[n], digits)

\* build.arch=AVR: the line every combined configuration holds (Board.__init__
\* merges build_config into it)
BuildArchLine ==
    << "b", "u", "i", "l", "d", ".", "a", "r", "c", "h", "=", "A", "V", "R" >>

\* the templates resolved against a configuration of referring variables
ChainTemplates(digits) ==
    { Placeholder(VarName(1, digits)),
      << "{", "m", "}" >> \o Placeholder(VarName(1, digits)),
      Placeholder(VarName(1, digits) \o << ".", "e" >>) }

\* CPU identities: no CPU, the '' of the legacy table, and two variant names
\* of boards.txt, "c" for one like atmega328 and "1c" for one like 16MHzatmega328
CpuIdentities ==
    { None, Str(<< >>), Str(<< "c" >>), Str(<< "1", "c" >>) }

\* the menu.cpu lines of a board definition
MenuChoices ==
    { << >>,
      << << "m", "e", "n", "u", ".", "c", "p", "u", ".", "c", ".", "a", "=", "y" >> >>,
      << << "m", "e", "n", "u", ".", "c", "p", "u", ".", "1", "c", ".", "a", "=", "y" >> >>,
      << << "m", "e", "n", "u", ".", "c", "p", "u", ".", "c", "=", "L" >> >> }

PlainChoices == { << >>, << << "a", "=", "x" >> >> }

CpuTemplates ==
    { << "{", "a", "}" >>,
      << "x" >>,
      << "'", "x", "'" >>,
      << "{", "}" >>,
      << "{", "1", "a", "}" >>,
      << "}", "a", "{" >> }

ResolveStart ==
    /\ pc = "idle"
    /\ resolved_str = << >>
    /\ unresolved = << >>
    /\ most_recent_unresolved_matches = [none |-> TRUE, v |-> << >>]
    /\ unresolved_matches = << >>
    /\ exc = "none"
    /\ ret = [called |-> FALSE, value |-> None]
    /\ strict_lookup = FALSE

\* a Board without CPU whose variables refer to each other
ChainInit ==
    \E assign \in [1..NVars -> VarChoices], digits \in BOOLEAN :
        /\ cpu = None
        /\ combined_config = parse_config(<< BuildArchLine >> \o VarLines(NVars, assign, digits))
        /\ config_str \in ChainTemplates(digits)

\* a Board with a CPU identity and a board definition with a CPU menu
CpuInit ==
    \E menu \in MenuChoices, plain \in PlainChoices :
        /\ cpu \in CpuIdentities
        /\ combined_config = parse_config(<< BuildArchLine >> \o menu \o plain)
        /\ config_str \in CpuTemplates

\* a Board without CPU with a value that holds a lone opening brace
FragmentInit ==
    /\ cpu = None
    /\ combined_config = parse_config(<< BuildArchLine,
                                         << "o", "=", "{" >>,
                                         << "a", "=", "{", "o", "}", "a", "}" >> >>)
    /\ config_str \in { << "{", "a", "}" >>, << "{", "o", "}" >> }

ResolveInit ==
    /\ ChainInit \/ CpuInit \/ FragmentInit
    /\ ResolveStart
    /\ ParseIdle
    /\ MergeIdle
    /\ BoardIdle

\* value = board.resolve(config_str)
CallResolve ==
    /\ pc = "idle"
    /\ ~ret.called
    /\ ret' = [called |-> TRUE, value |-> BoardResolve(cpu, combined_config, config_str)]
    /\ UNCHANGED << cpu, combined_config, config_str, pc, resolved_str, unresolved,
                    most_recent_unresolved_matches, unresolved_matches, exc,
                    strict_lookup >>
    /\ UNCHANGED << parseVars, mergeVars, boardVars >>

\* resolve_recursive(config_str), up to the test of its while loop
RR_Call ==
    /\ pc = "idle"
    /\ LET r == resolve_arduino_vars(cpu, combined_config, config_str)
           ok == r.tag = "ok"
       IN  /\ pc' = IF ok THEN "test" ELSE "raised"
           /\ exc' = IF ok THEN exc ELSE r.tag
           /\ resolved_str' = IF ok THEN r.cmd ELSE resolved_str
           /\ unresolved' = IF ok THEN r.unresolved ELSE unresolved
           /\ unresolved_matches' = IF ok THEN CreVarFindAll(r.cmd) ELSE unresolved_matches
    /\ most_recent_unresolved_matches' = [none |-> TRUE, v |-> << >>]
    /\ UNCHANGED << cpu, combined_config, config_str, ret, strict_lookup >>
    /\ UNCHANGED << parseVars, mergeVars, boardVars >>

\* the test of the while loop holds: the body is entered
RR_Enter ==
    /\ pc = "test"
    /\ LoopCondition(most_recent_unresolved_matches, unresolved_matches)
    /\ pc' = "body"
    /\ UNCHANGED << cpu, combined_config, config_str, resolved_str, unresolved,
                    most_recent_unresolved_matches, unresolved_matches, exc, ret,
                    strict_lookup >>
    /\ UNCHANGED << parseVars, mergeVars, boardVars >>

\* the body of the while loop
RR_Body ==
    /\ pc = "body"
    /\ LET r == resolve_arduino_vars(cpu, combined_config, resolved_str)
           ok == r.tag = "ok"
       IN  /\ pc' = IF ok THEN "test" ELSE "raised"
           /\ exc' = IF ok THEN exc ELSE r.tag
           /\ resolved_str' = IF ok THEN r.cmd ELSE resolved_str
           /\ unresolved' = IF ok THEN r.unresolved ELSE unresolved
           /\ most_recent_unresolved_matches' =
                  IF ok THEN [none |-> FALSE, v |-> unresolved_matches]
                        ELSE most_recent_unresolved_matches
           /\ unresolved_matches' = IF ok THEN CreVarFindAll(r.cmd) ELSE unresolved_matches
    /\ UNCHANGED << cpu, combined_config, config_str, ret, strict_lookup >>
    /\ UNCHANGED << parseVars, mergeVars, boardVars >>

\* the test of the while loop fails: the quotes are removed and
\* (resolved_str, unresolved) is returned
RR_Return ==
    /\ pc = "test"
    /\ ~LoopCondition(most_recent_unresolved_matches, unresolved_matches)
    /\ resolved_str' = StripQuotes(resolved_str)
    /\ pc' = "done"
    /\ UNCHANGED << cpu, combined_config, config_str, unresolved,
                    most_recent_unresolved_matches, unresolved_matches, exc, ret,
                    strict_lookup >>
    /\ UNCHANGED << parseVars, mergeVars, boardVars >>

ResolveNext == CallResolve \/ RR_Call \/ RR_Enter \/ RR_Body \/ RR_Return

SpecResolve == ResolveInit /\ [][ResolveNext]_vars

\* a call of resolve_recursive that has not returned or raised moves to its
\* next position: every step of the call changes pc, and a step is possible
\* at each of "idle", "test" and "body"
Advance ==
    /\ pc \in {"idle", "test", "body"}
    /\ pc' \in {"test", "body", "done", "raised"}
    /\ pc' # pc

\* resolve_recursive is one synchronous call: it runs on until it returns
LiveResolve == SpecResolve /\ WF_pc(Advance)

(***************************************************************************)
(* Specification of the lookup: resolve(config_dict, var) called on a      *)
(* configuration, in the default mode and with error_on_not_found.         *)
(***************************************************************************)

\* the placeholders looked up: one, two and three segments deep, and one
\* that is followed by more text
LookupVars(digits) ==
    { Placeholder(VarName(1, digits)),
      Placeholder(VarName(1, digits) \o << ".", "e" >>),
      Placeholder(VarName(1, digits) \o << ".", "e", ".", "e" >>),
      Placeholder(VarName(2, digits) \o << ".", "e" >>),
      Placeholder(VarName(1, digits)) \o << "x" >> }

LookupInit ==
    /\ \E assign \in [1..NVars -> VarChoices], digits \in BOOLEAN :
          /\ combined_config = parse_config(<< BuildArchLine >> \o VarLines(NVars, assign, digits))
          /\ config_str \in LookupVars(digits)
    /\ cpu = None
    /\ pc = "off"
    /\ resolved_str = << >>
    /\ unresolved = << >>
    /\ most_recent_unresolved_matches = [none |-> TRUE, v |-> << >>]
    /\ unresolved_matches = << >>
    /\ exc = "none"
    /\ ret = [called |-> FALSE, value |-> None]
    /\ strict_lookup = FALSE
    /\ ParseIdle
    /\ MergeIdle
    /\ BoardIdle

\* value = resolve(combined_config, config_str, None, mode)
Lookup ==
    /\ pc = "off"
    /\ combined_config # Dict(<< >>)
    /\ ~ret.called
    /\ \E mode \in BOOLEAN :
          /\ strict_lookup' = mode
          /\ ret' = [called |-> TRUE, value |-> resolve(combined_config, config_str, mode)]
    /\ UNCHANGED << cpu, combined_config, config_str, pc, resolved_str, unresolved,
                    most_recent_unresolved_matches, unresolved_matches, exc >>
    /\ UNCHANGED << parseVars, mergeVars, boardVars >>

LookupNext == Lookup

SpecLookup == LookupInit /\ [][LookupNext]_vars

(***************************************************************************)
(* Specification of merge: two nested dicts a and b, and merge(a, b)       *)
(* called on them, again and again.                                        *)
(***************************************************************************)

MaxCalls == 2

MergeKeyNames == { << "a" >>, << "b" >> }

MergeLeaves == { << "x" >>, << "y" >> }

\* the dicts with keys of MergeKeyNames and values of the set values
DictsOver(values) ==
    { Dict(f) : f \in UNION { [ks -> values] : ks \in SUBSET MergeKeyNames } }

\* the nested dicts of the model: leaves, and dicts of leaves, under two keys
MergeDicts == DictsOver({ Str(s) : s \in MergeLeaves } \cup DictsOver({ Str(s) : s \in MergeLeaves }))

MergeInit ==
    /\ \E ta \in MergeDicts, tb \in MergeDicts :
          LET a == AllocDict(<< >>, ta)
              b == AllocDict(a.h, tb)
          IN  /\ heap = b.h
              /\ arg_a = a.id
              /\ arg_b = b.id
              /\ before = ta
    /\ calls = 0
    /\ ParseIdle
    /\ ResolveIdle
    /\ BoardIdle

\* merge(a, b)
Merge ==
    /\ arg_a # 0
    /\ calls < MaxCalls
    /\ heap' = merge(heap, arg_a, arg_b)
    /\ calls' = calls + 1
    /\ UNCHANGED << arg_a, arg_b, before >>
    /\ UNCHANGED << parseVars, resolveVars, boardVars >>

MergeNext == Merge

SpecMerge == MergeInit /\ [][MergeNext]_vars

(***************************************************************************)
(* Specification of the Boards: an ArduinoContext on an installation, and  *)
(* Boards constructed on it one after the other.                           *)
(***************************************************************************)

MaxBoards == 2

\* what revisions.txt says: no file, version 1.0.5, version 1.5.0
Revisions == { << >>, << 1, 0, 5 >>, << 1, 5, 0 >> }

\* boards.txt of the family avr: the lines of the board "pro", with or without
\* a CPU menu, with or without values that other layers define too
ProLines(menu, override) ==
    << << "b", "u", "i", "l", "d", ".", "m", "c", "u", "=", "m" >> >>
    \o (IF menu THEN << << "m", "e", "n", "u", ".", "c", "p", "u", ".", "a", "t", "m", "e", "g", "a", "3", "2", "8", ".", "b", "u", "i", "l", "d", ".", "m", "c", "u", "=", "c" >> >> ELSE << >>)
    \o (IF override THEN << << "b", "u", "i", "l", "d", ".", "a", "r", "c", "h", "=", "b" >>, << "c", "o", "m", "p", "i", "l", "e", "r", ".", "p", "a", "t", "h", "=", "b" >> >> ELSE << >>)

\* the lines of the board "uno"; with clash, "build" is a value where the
\* other layers hold a mapping
UnoLines(clash) ==
    IF clash THEN << << "b", "u", "i", "l", "d", "=", "u" >> >> ELSE << << "b", "u", "i", "l", "d", ".", "m", "c", "u", "=", "u" >> >>

DueLines == << << "b", "u", "i", "l", "d", ".", "m", "c", "u", "=", "d" >> >>

\* platform.txt of the family avr, with or without values that other layers
\* define too, and of the family sam
AvrPlatformLines(override) ==
    << << "n", "a", "m", "e", "=", "p" >> >>
    \o (IF override THEN << << "r", "u", "n", "t", "i", "m", "e", ".", "i", "d", "e", ".", "v", "e", "r", "s", "i", "o", "n", "=", "p" >>, << "r", "u", "n", "t", "i", "m", "e", ".", "h", "a", "r", "d", "w", "a", "r", "e", "=", "p" >>, << "b", "u", "i", "l", "d", ".", "a", "r", "c", "h", "=", "p" >>, << "c", "o", "m", "p", "i", "l", "e", "r", ".", "c", "=", "p" >> >> ELSE << >>)

SamPlatformLines == << << "n", "a", "m", "e", "=", "s" >>, << "r", "u", "n", "t", "i", "m", "e", ".", "h", "a", "r", "d", "w", "a", "r", "e", "=", "s" >> >>

BoardNames == { << "p", "r", "o" >>, << "u", "n", "o" >>, << "d", "u", "e" >>, << "p", "r", "o", "3", "2", "8" >> }

CpuArguments == { None, Str(<< "a", "t", "m", "e", "g", "a", "3", "2", "8" >>) }

BoardsInit ==
    /\ \E revisions \in Revisions :
          LET context == ArduinoContext(revisions)
              runtime == AllocDict(<< >>, context.runtime_config)
          IN  /\ pre_15 = context.pre_15
              /\ heap = IF context.runtime_config.tag = "none" THEN << >> ELSE runtime.h
              /\ runtime_config = IF context.runtime_config.tag = "none" THEN 0 ELSE runtime.id
    /\ \E menu \in BOOLEAN, override \in BOOLEAN, uno \in {"absent", "plain", "clash"} :
          board_configs_by_family =
              (<< "a", "v", "r" >> :> ((<< "p", "r", "o" >> :> parse_config(ProLines(menu, override)))
                       @@ (IF uno # "absent"
                           THEN << "u", "n", "o" >> :> parse_config(UnoLines(uno = "clash"))
                           ELSE << >>)))
              @@ (<< "s", "a", "m" >> :> (<< "d", "u", "e" >> :> parse_config(DueLines)))
    /\ \E override \in BOOLEAN :
          platform_config_by_family =
              (<< "a", "v", "r" >> :> parse_config(AvrPlatformLines(override)))
              @@ (<< "s", "a", "m" >> :> parse_config(SamPlatformLines))
    /\ boards = << >>
    /\ outcomes = << >>
    /\ requests = << >>
    /\ exposed = [called |-> FALSE]
    /\ arg_a = 0
    /\ arg_b = 0
    /\ before = Dict(<< >>)
    /\ calls = 0
    /\ ParseIdle
    /\ ResolveIdle

\* Board(arduino_context, board_name, cpu)
Construct ==
    /\ board_configs_by_family # << >>
    /\ Len(outcomes) < MaxBoards
    /\ \E board_name \in BoardNames, cpu_arg \in CpuArguments, isdir \in BOOLEAN :
       \E found \in FamilyOf(board_name) :
       \E new \in { BoardInit(heap, board_name, cpu_arg, found, isdir) } :
          /\ heap' = new.h
          /\ outcomes' = Append(outcomes, new.outcome)
          /\ requests' = Append(requests, [board_name |-> board_name, cpu |-> cpu_arg])
          /\ boards' = IF new.outcome = "ok" THEN Append(boards, new.board) ELSE boards
    /\ UNCHANGED << pre_15, runtime_config, board_configs_by_family, platform_config_by_family,
                    exposed >>
    /\ UNCHANGED << arg_a, arg_b, before, calls >>
    /\ UNCHANGED << parseVars, resolveVars >>

BoardsNext == Construct

SpecBoards == BoardsInit /\ [][BoardsNext]_vars

(***************************************************************************)
(* Specification of the exposed values: a Board made on a context, an      *)
(* Uploader made for it, and the values read from both.                    *)
(***************************************************************************)

\* the lines of the board "pro" with the upload entries of the kind: none,
\* a protocol and a speed, these and a tool, a speed that is no number, or
\* 'upload' as a value; with or without a CPU menu
UploadProLines(menu, kind) ==
    << << "b", "u", "i", "l", "d", ".", "m", "c", "u", "=", "m" >> >>
    \o (IF kind \in {"plain", "tool", "badspeed"}
        THEN << << "u", "p", "l", "o", "a", "d", ".", "p", "r", "o", "t", "o", "c", "o", "l", "=", "a" >> >>
        ELSE << >>)
    \o (IF kind \in {"plain", "tool"}
        THEN << << "u", "p", "l", "o", "a", "d", ".", "s", "p", "e", "e", "d", "=", "0", "1", "_", "0" >> >>
        ELSE << >>)
    \o (IF kind = "badspeed"
        THEN << << "u", "p", "l", "o", "a", "d", ".", "s", "p", "e", "e", "d", "=", "x" >> >>
        ELSE << >>)
    \o (IF kind = "tool"
        THEN << << "u", "p", "l", "o", "a", "d", ".", "t", "o", "o", "l", "=", "b" >> >>
        ELSE << >>)
    \o (IF kind = "leaf"
        THEN << << "u", "p", "l", "o", "a", "d", "=", "u" >> >>
        ELSE << >>)
    \o (IF menu
        THEN << << "m", "e", "n", "u", ".", "c", "p", "u", ".", "a", "t", "m", "e", "g", "a", "3", "2", "8", ".", "b", "u", "i", "l", "d", ".", "m", "c", "u", "=", "c" >>,
                << "m", "e", "n", "u", ".", "c", "p", "u", ".", "a", "t", "m", "e", "g", "a", "3", "2", "8", ".", "u", "p", "l", "o", "a", "d", ".", "p", "r", "o", "t", "o", "c", "o", "l", "=", "b" >>,
                << "m", "e", "n", "u", ".", "c", "p", "u", ".", "a", "t", "m", "e", "g", "a", "3", "2", "8", ".", "u", "p", "l", "o", "a", "d", ".", "s", "p", "e", "e", "d", "=", "2" >> >>
        ELSE << >>)

UploadKinds == { "none", "plain", "tool", "badspeed", "leaf" }

\* the lines of the board "due", with upload entries
UploadDueLines ==
    DueLines \o << << "u", "p", "l", "o", "a", "d", ".", "p", "r", "o", "t", "o", "c", "o", "l", "=", "a" >>,
                   << "u", "p", "l", "o", "a", "d", ".", "s", "p", "e", "e", "d", "=", "1" >> >>

ExposeInit ==
    /\ \E revisions \in Revisions :
          LET context == ArduinoContext(revisions)
              runtime == AllocDict(<< >>, context.runtime_config)
          IN  /\ pre_15 = context.pre_15
              /\ heap = IF context.runtime_config.tag = "none" THEN << >> ELSE runtime.h
              /\ runtime_config = IF context.runtime_config.tag = "none" THEN 0 ELSE runtime.id
    /\ \E menu \in BOOLEAN, kind \in UploadKinds :
          board_configs_by_family =
              (<< "a", "v", "r" >> :> (<< "p", "r", "o" >> :> parse_config(UploadProLines(menu, kind))))
              @@ (<< "s", "a", "m" >> :> (<< "d", "u", "e" >> :> parse_config(UploadDueLines)))
    /\ platform_config_by_family =
              (<< "a", "v", "r" >> :> parse_config(AvrPlatformLines(FALSE)))
              @@ (<< "s", "a", "m" >> :> parse_config(SamPlatformLines))
    /\ boards = << >>
    /\ outcomes = << >>
    /\ requests = << >>
    /\ exposed = [called |-> FALSE]
    /\ arg_a = 0
    /\ arg_b = 0
    /\ before = Dict(<< >>)
    /\ calls = 0
    /\ ParseIdle
    /\ ResolveIdle

\* the first Board(arduino_context, board_name, cpu) on the context
ConstructFirst ==
    /\ outcomes = << >>
    /\ Construct

\* board.mcu, uploader = Uploader(board), and uploader.protocol,
\* uploader.speed and uploader.flags when the Uploader is made
Read ==
    /\ boards # << >>
    /\ ~exposed.called
    /\ \E n \in 1..Len(boards), arm \in BOOLEAN, in_etc \in BOOLEAN, in_root \in BOOLEAN :
       \E uploader \in { Uploader(boards[n], arm) } :
          exposed' = [called   |-> TRUE,
                      board    |-> n,
                      mcu      |-> mcu(boards[n]),
                      uploader |-> uploader.tag,
                      protocol |-> IF uploader.tag = "ok" THEN protocol(uploader) ELSE None,
                      speed    |-> IF uploader.tag = "ok" THEN speed(uploader) ELSE None,
                      flags    |-> IF uploader.tag = "ok" THEN flags(uploader, in_etc, in_root)
                                   ELSE [tag |-> "none", items |-> << >>]]
    /\ UNCHANGED << pre_15, runtime_config, board_configs_by_family, platform_config_by_family,
                    boards, outcomes, requests >>
    /\ UNCHANGED << heap, arg_a, arg_b, before, calls >>
    /\ UNCHANGED << parseVars, resolveVars >>

ExposeNext == ConstructFirst \/ Read

SpecExpose == ExposeInit /\ [][ExposeNext]_vars

(***************************************************************************)
(* Properties of the resolver                                              *)
(***************************************************************************)

Range(seq) == { seq[i] : i \in 1..Len(seq) }

\* the node of a nested configuration at a path of keys, None where the
\* path does not lead to one
RECURSIVE TreeAt(_, _)
TreeAt(t, path) ==
    IF path = << >> THEN t
    ELSE IF t.tag = "dict" /\ path[1] \in DOMAIN t.kids
    THEN TreeAt(t.kids[path[1]], Tail(path))
    ELSE None

\* s is one placeholder of the grammar {segment(.segment)*},
\* segment = [a-zA-Z_][a-zA-Z_0-9]*
IsPlaceholder(s) == BraceMatchEnd(s, 1, AlphaChars, AlnumChars) = Len(s) + 1

\* the dotted path of a placeholder, as its list of keys
PathOf(var) == Split(SubSeq(var, 2, Len(var) - 1), ".")

\* what the configuration holds for the path under menu.cpu.<cpu>
CpuScoped(path) ==
    IF cpu.tag = "none" THEN None
    ELSE TreeAt(combined_config,
                << << "m", "e", "n", "u" >>, << "c", "p", "u" >>, cpu.val >> \o path)

Unscoped(path) == TreeAt(combined_config, path)

\* the value a placeholder stands for: the CPU-scoped one, else the unscoped one
Intended(var) ==
    IF CpuScoped(PathOf(var)).tag # "none" THEN CpuScoped(PathOf(var))
    ELSE Unscoped(PathOf(var))

\* no placeholder of the grammar occurs in s
NoPlaceholderIn(s) ==
    \A i \in 1..Len(s) : BraceMatchEnd(s, i, AlphaChars, AlnumChars) = 0

\* s holds neither a brace nor a quote
PlainText(s) == \A i \in 1..Len(s) : s[i] \notin {"{", "}", "'"}

Occurs(sub, s) == \E i \in 1..Len(s) : StartsWith(From(s, i), sub)

\* C2: with a CPU identity c, a string at menu.cpu.c.<p> and a value at <p>,
\* Board.resolve('{<p>}') returns the menu.cpu.c.<p> value and
\* resolve_recursive('{<p>}') returns it as its string.
C2_CpuOverrideWins ==
    ( /\ IsPlaceholder(config_str)
      /\ cpu.tag = "str"
      /\ CpuScoped(PathOf(config_str)).tag = "str"
      /\ PlainText(CpuScoped(PathOf(config_str)).val)
      /\ Unscoped(PathOf(config_str)).tag # "none" )
    => /\ ret.called => ret.value = CpuScoped(PathOf(config_str))
       /\ pc # "raised"
       /\ pc = "done" => resolved_str = CpuScoped(PathOf(config_str)).val

\* C3: whatever the CPU identity (a variant name, no CPU, the empty string),
\* when menu.cpu.<cpu>.<p> is absent and <p> holds a value,
\* Board.resolve('{<p>}') returns the value at <p>, and resolve_recursive
\* substitutes it.
C3_UnscopedFallback ==
    ( /\ IsPlaceholder(config_str)
      /\ CpuScoped(PathOf(config_str)).tag = "none"
      /\ Unscoped(PathOf(config_str)).tag # "none" )
    => /\ ret.called => ret.value = Unscoped(PathOf(config_str))
       /\ pc # "raised"
       /\ ( /\ pc = "done"
            /\ Unscoped(PathOf(config_str)).tag = "str"
            /\ PlainText(Unscoped(PathOf(config_str)).val) )
          => resolved_str = Unscoped(PathOf(config_str)).val

\* the end of the chain of placeholders that starts at var: the text without
\* placeholder it leads to, None when it leads to none within n steps
RECURSIVE ChainEnd(_, _)
ChainEnd(var, n) ==
    LET v == Intended(var)
    IN  IF v.tag # "str" THEN None
        ELSE IF PlainText(v.val) THEN v
        ELSE IF n > 0 /\ IsPlaceholder(v.val) THEN ChainEnd(v.val, n - 1)
        ELSE None

\* the brace groups in the value that resolve_arduino_vars puts for var
RefsOf(var) ==
    LET v == VarMapValue(cpu, combined_config, var)
    IN  IF v.tag = "str" THEN Range(FindAllBraces(v.val)) ELSE {}

RECURSIVE RefClosure(_, _)
RefClosure(S, n) ==
    IF n = 0 THEN S ELSE RefClosure(S \cup UNION { RefsOf(var) : var \in S }, n - 1)

\* no placeholder that the template leads to leads back to itself
Acyclic ==
    \A var \in RefClosure(Range(FindAllBraces(config_str)), NVars + 1) :
        var \notin RefClosure(RefsOf(var), NVars + 1)

\* C4: on a Board without CPU and with placeholder values that do not
\* refer to each other cyclically, a template that is the head of a chain of
\* placeholders (names of letters, digits, underscores) ending in a text
\* resolves to that text with an empty unresolved list; and an empty
\* unresolved list means that no placeholder is left in the returned string.
C4_MultiRound ==
    (cpu.tag = "none" /\ Acyclic) =>
       /\ ( /\ IsPlaceholder(config_str)
            /\ ChainEnd(config_str, NVars).tag = "str" )
          => /\ pc # "raised"
             /\ pc = "done" => /\ resolved_str = ChainEnd(config_str, NVars).val
                               /\ unresolved = << >>
       /\ (pc = "done" /\ unresolved = << >>) => NoPlaceholderIn(resolved_str)

Finished == pc \in {"done", "raised"}

\* at the test of the loop, with the same matches as one iteration before,
\* the next step is the return
StopsAtFixedPoint ==
    ( /\ pc = "test"
      /\ ~most_recent_unresolved_matches.none
      /\ most_recent_unresolved_matches.v = unresolved_matches )
    => pc' = "done"

\* C5: with placeholder values that do not refer to each other cyclically,
\* resolve_recursive terminates (it returns, or lets an exception through),
\* also when placeholders stay unresolved; the loop is left as soon as the
\* matches found in the string are those of the iteration before.
C5_Terminates ==
    /\ Acyclic => <>Finished
    /\ [][StopsAtFixedPoint]_vars

\* C7: every placeholder of the template whose path is absent, or leads to
\* a sub-mapping, is left verbatim in the returned string and is listed in
\* the returned unresolved list (the call returns).
C7_UnresolvedReported ==
    cpu.tag = "none" =>
       \A var \in Range(FindAllBraces(config_str)) :
          (IsPlaceholder(var) /\ Intended(var).tag \in {"none", "dict"})
          => /\ pc # "raised"
             /\ pc = "done" => /\ Occurs(var, resolved_str)
                               /\ var \in Range(unresolved)

\* the template with its quotes left out
WithoutQuotes(s) == SelectSeq(s, LAMBDA ch : ch # "'")

C11_MissingIsAbsent ==
    ( /\ pc = "off"
      /\ ret.called
      /\ IsPlaceholder(config_str)
      /\ TreeAt(combined_config, PathOf(config_str)).tag = "none" )
    => ret.value = IF strict_lookup THEN Raised("KeyError") ELSE None

(***************************************************************************)
(* Properties of the parser                                                *)
(***************************************************************************)

\* the key and the value of a key=value line
KeyOf(line) == SubSeq(line, 1, IndexOf(line, "=") - 1)

ValueOf(line) == From(line, IndexOf(line, "=") + 1)

\* a dotted key: segments of letters, digits and underscores between dots
IsDottedKey(key) ==
    \A i \in 1..Len(Split(key, ".")) :
        /\ Split(key, ".")[i] # << >>
        /\ \A n \in 1..Len(Split(key, ".")[i]) : Split(key, ".")[i][n] \in AlnumChars

\* p is a proper prefix of q, segment by segment
ProperDotPrefix(p, q) == Len(p) < Len(q) /\ SubSeq(q, 1, Len(p)) = p

\* the lines are key=value records with distinct dotted keys, none a
\* proper dot-prefix of another
ValidRecords(ls) ==
    /\ \A i \in 1..Len(ls) : Contains(ls[i], "=") /\ IsDottedKey(KeyOf(ls[i]))
    /\ \A i, n \in 1..Len(ls) :
          i # n => /\ KeyOf(ls[i]) # KeyOf(ls[n])
                   /\ ~ProperDotPrefix(Split(KeyOf(ls[i]), "."), Split(KeyOf(ls[n]), "."))

\* the (path, value) pairs of the records
RecordPairs(ls) == { << Split(KeyOf(ls[i]), "."), ValueOf(ls[i]) >> : i \in 1..Len(ls) }

\* C9: for every set of key=value records with distinct dotted keys, none a
\* proper dot-prefix of another, in any line order, parse_config returns and
\* nested_dict_iter of its result yields exactly the records' (path, value)
\* pairs.
C9_RoundTrip ==
    ValidRecords(lines)
    => /\ ppc # "raised"
       /\ ppc = "flattened"
          => flat = RecordPairs(lines)

\* the round trip on the files that hold at least one record
RoundTripOfNonEmptyFiles ==
    (lines # << >> /\ ValidRecords(lines))
    => /\ ppc # "raised"
       /\ ppc = "flattened" => flat = RecordPairs(lines)

\* the lines of the file that hold '='
WithEquals(ls) == SelectSeq(ls, LAMBDA l : Contains(l, "="))

\* C10: parse_config never fails because of a line without '=': such lines
\* are skipped and the result is the nested configuration of the other
\* lines, the empty one when there is none.
C10_SkipsLinesWithoutEquals ==
    ( /\ ppc \in {"parsed", "raised"}
      /\ \E i \in 1..Len(KeptLines(lines)) : ~Contains(KeptLines(lines)[i], "=") )
    => /\ ~IsRaised(result)
       /\ result = IF CleanedData(Sorted(KeptLines(WithEquals(lines)))) = << >>
                   THEN Dict(<< >>)
                   ELSE parse_config(WithEquals(lines))

(***************************************************************************)
(* Properties of merge                                                     *)
(***************************************************************************)

\* the nested dict a is now
Merged == HeapTree(heap, arg_a)

\* C1: after merge(a, b) has returned, every leaf path a had before the call
\* still leads to the value a held there, whatever b holds at that path
\* (nothing, the same leaf, another leaf, or a mapping).
C1_MergeKeepsLeaves ==
    calls >= 1
    => \A leaf \in nested_dict_iter(before, << >>) :
          TreeAt(Merged, leaf[1]) = Str(leaf[2])

\* a merge made where b holds another leaf at a leaf path of a, a mapping at
\* a second one, and a key a does not have
C1_Witness ==
    /\ calls = 1
    /\ \E l1, l2 \in nested_dict_iter(before, << >>) :
          /\ l1 # l2
          /\ TreeAt(HeapTree(heap, arg_b), l1[1]).tag = "str"
          /\ TreeAt(HeapTree(heap, arg_b), l1[1]) # Str(l1[2])
          /\ TreeAt(HeapTree(heap, arg_b), l2[1]).tag = "dict"
    /\ Merged # before

\* C14: merge is idempotent: a second merge(a, b), made on the result of
\* the first one and the same b, leaves the nested dict a as the first
\* one made it.
C14_MergeIdempotent ==
    [][calls >= 1 => HeapTree(heap', arg_a') = Merged]_vars

\* a second merge made, where the first one has changed a and has met a
\* leaf of a that b holds otherwise and a mapping of both
C14_Witness ==
    /\ calls = 2
    /\ Merged # before
    /\ \E k1, k2 \in DOMAIN before.kids :
          /\ before.kids[k1].tag = "str"
          /\ k1 \in DOMAIN HeapTree(heap, arg_b).kids
          /\ HeapTree(heap, arg_b).kids[k1] # before.kids[k1]
          /\ before.kids[k2].tag = "dict"
          /\ k2 \in DOMAIN HeapTree(heap, arg_b).kids
          /\ HeapTree(heap, arg_b).kids[k2].tag = "dict"
          /\ HeapTree(heap, arg_b).kids[k2] # before.kids[k2]

(***************************************************************************)
(* Properties of the Boards                                                *)
(***************************************************************************)

\* the nested dict the combined configuration of a Board is now
CombinedConfig(board) == HeapTree(heap, board.combined_config)

\* the leaf paths of a nested dict
LeafPaths(t) == { leaf[1] : leaf \in nested_dict_iter(t, << >>) }

\* the layers of a Board, as they were handed to its construction, that
\* define the leaf path: their positions in the order board definition,
\* runtime info, platform definition, build layer
Defining(board, path) ==
    { i \in 1..Len(board.layers) : TreeAt(board.layers[i], path).tag = "str" }

CompilerPathKey == << << "c", "o", "m", "p", "i", "l", "e", "r" >>, << "p", "a", "t", "h" >> >>

\* the earliest of the layers that define the leaf path
FirstDefining(board, path) ==
    CHOOSE i \in Defining(board, path) : \A j \in Defining(board, path) : i <= j

\* a layer before the first defining one holds a leaf at a proper prefix of
\* the path, or a mapping at the path
ClashBefore(board, path) ==
    \E i \in 1..(FirstDefining(board, path) - 1) :
       \/ TreeAt(board.layers[i], path).tag = "dict"
       \/ \E n \in 1..(Len(path) - 1) : TreeAt(board.layers[i], SubSeq(path, 1, n)).tag = "str"

\* the leaf paths of the layers of a Board, compiler.path left out, that
\* more than one layer defines
SharedPaths(board) ==
    { path \in UNION { LeafPaths(board.layers[i]) : i \in 1..Len(board.layers) } :
         path # CompilerPathKey /\ Cardinality(Defining(board, path)) > 1 }

\* C6: in the combined configuration of a constructed Board, every leaf path
\* other than compiler.path that more than one layer defines holds the value
\* of the earliest of these layers, in the order board definition, runtime
\* info, platform definition, build layer.
C6_EarliestLayerWins ==
    \A n \in 1..Len(boards) :
       \A path \in SharedPaths(boards[n]) :
          TreeAt(CombinedConfig(boards[n]), path)
             = TreeAt(boards[n].layers[FirstDefining(boards[n], path)], path)

\* C6, amended: the same, for the paths at which no layer before the first
\* defining one holds a leaf at a proper prefix or a mapping at the path;
\* where one does, the combined configuration holds no leaf at the path.
C6_EarliestLayerWinsUnlessClash ==
    \A n \in 1..Len(boards) :
       \A path \in SharedPaths(boards[n]) :
          IF ClashBefore(boards[n], path)
          THEN TreeAt(CombinedConfig(boards[n]), path).tag # "str"
          ELSE TreeAt(CombinedConfig(boards[n]), path)
                  = TreeAt(boards[n].layers[FirstDefining(boards[n], path)], path)

\* a Board made of four layers, with a path that the board definition, the
\* platform and the build layer define differently, and another one that
\* the runtime info and the platform define differently
C6_Witness ==
    \E n \in 1..Len(boards) :
       /\ Len(boards[n].layers) = 4
       /\ \E path \in LeafPaths(boards[n].layers[1]) :
             /\ Defining(boards[n], path) = {1, 3, 4}
             /\ TreeAt(boards[n].layers[1], path) # TreeAt(boards[n].layers[3], path)
             /\ TreeAt(boards[n].layers[1], path) # TreeAt(boards[n].layers[4], path)
       /\ \E path \in LeafPaths(boards[n].layers[2]) :
             /\ Defining(boards[n], path) = {2, 3}
             /\ TreeAt(boards[n].layers[2], path) # TreeAt(boards[n].layers[3], path)

\* the board definition Board.__init__ takes for a board name given without
\* CPU: the one of that name, else the one the legacy table leads to in the
\* family avr; None when there is none
MatchedDefinition(board_name) ==
    LET with  == { f \in DOMAIN board_configs_by_family :
                      board_name \in DOMAIN board_configs_by_family[f] }
        entry == resolve_legacy_board(board_name)
    IN  IF with # {}
        THEN board_configs_by_family[CHOOSE f \in with : TRUE][board_name]
        ELSE IF /\ entry.board.tag = "str"
                /\ << "a", "v", "r" >> \in DOMAIN board_configs_by_family
                /\ entry.board.val \in DOMAIN board_configs_by_family[<< "a", "v", "r" >>]
        THEN board_configs_by_family[<< "a", "v", "r" >>][entry.board.val]
        ELSE None

\* the Board that the i-th construction returned
BoardOf(i) == boards[Cardinality({ j \in 1..i : outcomes[j] = "ok" })]

\* C12: a construction without CPU argument, for a board whose definition
\* holds menu.cpu entries, fails with the error of the ambiguous CPU (a
\* ValueError) and returns no Board, in every context and whether the name
\* was found in a family or through the legacy table.
C12_AmbiguousCpu ==
    \A i \in 1..Len(requests) :
       ( /\ requests[i].cpu = None
         /\ TreeAt(MatchedDefinition(requests[i].board_name),
                   << << "m", "e", "n", "u" >>, << "c", "p", "u" >> >>).tag = "dict" )
       => outcomes[i] = "ValueError"

\* the names of the legacy table: the name_1_0 of its rows
LegacyNames == { LEGACY_BOARD_INFO[i][3] : i \in 2..Len(LEGACY_BOARD_INFO) }

\* C13: a construction without CPU argument from a name of the legacy
\* table that no family defines returns a Board of the family avr whose
\* name and CPU are those of the table's entry for the name.
C13_LegacyFallback ==
    \A i \in 1..Len(requests) :
       ( /\ requests[i].cpu = None
         /\ requests[i].board_name \in LegacyNames
         /\ FamilyOf(requests[i].board_name) = { None } )
       => /\ outcomes[i] = "ok"
          /\ BoardOf(i).family = << "a", "v", "r" >>
          /\ Str(BoardOf(i).name) = resolve_legacy_board(requests[i].board_name).board
          /\ BoardOf(i).cpu = resolve_legacy_board(requests[i].board_name).cpu

\* the dict objects that make up the nested dict of the dict object id
RECURSIVE ObjectsOf(_, _)
ObjectsOf(h, id) ==
    { id } \cup UNION { IF h[id][k].tag = "ref" THEN ObjectsOf(h, h[id][k].id) ELSE {}
                        : k \in DOMAIN h[id] }

\* the runtime_config of a context as ArduinoContext.__init__ makes it
FreshRuntimeConfigs == { ArduinoContext(revisions).runtime_config : revisions \in Revisions }

\* C15: the constructions of Boards on a context leave the context's
\* runtime_config and the board definitions as they were, and the combined
\* configuration of a Board has no dict object in common with the context's
\* runtime_config or with the combined configuration of another Board.
C15_NoSharedState ==
    /\ runtime_config # 0 => HeapTree(heap, runtime_config) \in FreshRuntimeConfigs
    /\ \A n \in 1..Len(boards) :
          /\ boards[n].config = board_configs_by_family[boards[n].family][boards[n].name]
          /\ runtime_config # 0 =>
                ObjectsOf(heap, boards[n].combined_config)
                   \cap ObjectsOf(heap, runtime_config) = {}
          /\ \A k \in 1..Len(boards) :
                k # n => ObjectsOf(heap, boards[n].combined_config)
                            \cap ObjectsOf(heap, boards[k].combined_config) = {}

\* what the definition of the Board read holds under menu.cpu.<cpu> at the
\* path, None when the Board has no CPU
ScopedOf(board, path) ==
    IF board.cpu.tag # "str" THEN None
    ELSE TreeAt(board.config, << << "m", "e", "n", "u" >>, << "c", "p", "u" >>, board.cpu.val >> \o path)

BuildMcuKey == << << "b", "u", "i", "l", "d" >>, << "m", "c", "u" >> >>

UploadProtocolKey == << << "u", "p", "l", "o", "a", "d" >>, << "p", "r", "o", "t", "o", "c", "o", "l" >> >>

UploadSpeedKey == << << "u", "p", "l", "o", "a", "d" >>, << "s", "p", "e", "e", "d" >> >>

\* C16: for a Board with a CPU c, Board.mcu, the Uploader's protocol and
\* speed, and the -c, -p and -b entries of its flags are the values at
\* menu.cpu.c.build.mcu, menu.cpu.c.upload.protocol and
\* menu.cpu.c.upload.speed, where the configuration holds these.
C16_CpuFirstEverywhere ==
    exposed.called =>
       LET board == boards[exposed.board]
       IN  /\ ScopedOf(board, BuildMcuKey).tag = "str"
              => /\ exposed.mcu = ScopedOf(board, BuildMcuKey)
                 /\ exposed.flags.tag = "ok"
                    => exposed.flags.items[3][2] = ScopedOf(board, BuildMcuKey)
           /\ ScopedOf(board, UploadProtocolKey).tag = "str"
              => /\ exposed.protocol = ScopedOf(board, UploadProtocolKey)
                 /\ exposed.flags.tag = "ok"
                    => exposed.flags.items[2][2] = ScopedOf(board, UploadProtocolKey)
           /\ ScopedOf(board, UploadSpeedKey).tag = "str"
              => /\ exposed.speed = PyInt(ScopedOf(board, UploadSpeedKey))
                 /\ exposed.flags.tag = "ok"
                    => exposed.flags.items[4][2] = PyInt(ScopedOf(board, UploadSpeedKey))

\* the placeholders that the template leads to
Reached == RefClosure(Range(FindAllBraces(config_str)), NVars + 1)

\* a placeholder that the template leads to leads back to itself
CycleReached ==
    \E var \in Reached : var \in RefClosure(RefsOf(var), NVars + 1)

\* var leads to another placeholder that leads back to var
OnLongCycle(var) ==
    \E other \in RefClosure(RefsOf(var), NVars + 1) \ { var } :
       var \in RefClosure(RefsOf(other), NVars + 1)

\* cre_var matches the whole of var: a name of letters and underscores
LoopSees(var) == BraceMatchEnd(var, 1, AlphaChars, AlphaChars) = Len(var) + 1

\* the template leads to a cycle of two or more placeholders, and the names
\* of the placeholders it leads to are made of letters and underscores
LongCycleReached ==
    /\ \E var \in Reached : OnLongCycle(var)
    /\ \A var \in Reached : LoopSees(var)

=============================================================================
